---- MODULE Spec2Model ----
(***************************************************************************)
(* A model of harelsp: the Document Store (docs), the directory indexer,   *)
(* the import loader, the module resolver and the three queries, driven by *)
(* the event loop of main.                                                 *)
(*                                                                         *)
(* Text is modelled at the character level: a string is a sequence of      *)
(* one-character strings, offsets are 0-based as in the Rust source, a     *)
(* path is the sequence of its normal components below the root, and a     *)
(* Uri is the path it was formatted from (file:// + path).                 *)
(***************************************************************************)
EXTENDS Integers, Sequences, FiniteSets, Bags, TLC

(***************************************************************************)
(* Characters and string primitives of the Rust standard library           *)
(***************************************************************************)
\* Option<T> is a sequence: None is <<>> and Some(x) is <<x>>; an absent offset
\* (the None of str::find) is NoIdx
None == <<>>
Some(x) == <<x>>
NoIdx == -1

LowerChars ==
  {"a","b","c","d","e","f","g","h","i","j","k","l","m",
   "n","o","p","q","r","s","t","u","v","w","x","y","z"}

DigitChars == {"0","1","2","3","4","5","6","7","8","9"}

\* char::is_alphanumeric, on the ASCII characters the model uses
is_alphanumeric(c) == c \in LowerChars \cup DigitChars

WhiteChars == {" ", "\t", "\n", "\r"}

\* s[a..b], 0-based and half-open, for 0 <= a <= b <= Len(s)
Slice(s, a, b) == SubSeq(s, a + 1, b)

\* str::starts_with
starts_with(s, p) == Len(p) <= Len(s) /\ SubSeq(s, 1, Len(p)) = p

\* str::find with a substring pattern: the first 0-based offset, or NoIdx
find_str(s, p) ==
  LET hits == {i \in 0..(Len(s) - Len(p)) : Slice(s, i, i + Len(p)) = p}
  IN  IF hits = {} THEN NoIdx ELSE CHOOSE i \in hits : \A j \in hits : i <= j

\* str::find with a character predicate, given as the set of positions
\* (1-based) where it is true
FirstIn(hits) == IF hits = {} THEN NoIdx
                 ELSE (CHOOSE i \in hits : \A j \in hits : i <= j) - 1

LastIn(hits) == IF hits = {} THEN NoIdx
                ELSE (CHOOSE i \in hits : \A j \in hits : i >= j) - 1

\* str::trim: leading and trailing whitespace removed
trim(s) ==
  LET keep == {i \in 1..Len(s) : s[i] \notin WhiteChars}
  IN  IF keep = {} THEN <<>>
      ELSE SubSeq(s, CHOOSE i \in keep : \A j \in keep : i <= j,
                     CHOOSE i \in keep : \A j \in keep : i >= j)

\* str::trim_end_matches(':')
trim_end_colons(s) ==
  LET keep == {i \in 1..Len(s) : s[i] # ":"}
  IN  IF keep = {} THEN <<>>
      ELSE SubSeq(s, 1, CHOOSE i \in keep : \A j \in keep : i >= j)

\* str::split("::"): left to right, non-overlapping, always at least one piece
RECURSIVE split_colons(_)
split_colons(s) ==
  LET at == find_str(s, <<":", ":">>)
  IN  IF at = NoIdx THEN <<s>>
      ELSE <<Slice(s, 0, at)>> \o split_colons(Slice(s, at + 2, Len(s)))

\* str::lines and BufRead::lines: split at "\n", a "\r" before the "\n" is
\* dropped, and a final empty piece is no line
RECURSIVE lines(_)
lines(text) ==
  LET nl == find_str(text, <<"\n">>)
      strip(l) == IF Len(l) > 0 /\ l[Len(l)] = "\r"
                  THEN SubSeq(l, 1, Len(l) - 1) ELSE l
  IN  IF text = <<>> THEN <<>>
      ELSE IF nl = NoIdx THEN <<text>>
      ELSE <<strip(Slice(text, 0, nl))>> \o lines(Slice(text, nl + 1, Len(text)))

(***************************************************************************)
(* doc.rs: identifiers, imports, items                                     *)
(***************************************************************************)
\* get_identifier panics when char_idx is past the end of the line (line[..i])
get_identifier_panics(line, char_idx) == char_idx > Len(line)

get_identifier(line, char_idx) ==
  LET i == char_idx
      left == LastIn({j \in 1..i :
                 ~(is_alphanumeric(line[j]) \/ line[j] = ":" \/ line[j] = "_")})
      start == IF left = NoIdx THEN 0 ELSE left + 1
      right == FirstIn({j \in (i + 1)..Len(line) :
                 ~(is_alphanumeric(line[j]) \/ line[j] = "_")})
      end == IF right = NoIdx THEN Len(line) ELSE right
  IN  split_colons(trim_end_colons(Slice(line, start, end)))

S_use == <<"u","s","e">>

\* the closure of get_imports on one line panics when the terminator directly
\* follows the keyword: end - 1 is a u32 subtraction, which with end = 0
\* panics in a build with overflow checks and without them wraps to 2^32 - 1,
\* an offset past the end of every line, where the slice in get_identifier
\* panics.
import_of_line_panics(l) ==
  /\ starts_with(l, S_use)
  /\ LET s == Slice(l, 3, Len(l))
         end == find_str(s, <<";">>)
     IN  end # NoIdx /\ (end = 0 \/ get_identifier_panics(s, end - 1))

\* the closure of get_imports on one line: None or Some(Ident)
import_of_line(l) ==
  IF ~starts_with(l, S_use) THEN None
  ELSE LET s == Slice(l, 3, Len(l))
           end == find_str(s, <<";">>)
       IN  IF end = NoIdx THEN None
           ELSE Some(get_identifier(s, end - 1))

get_imports_panics(source) ==
  \E n \in 1..Len(source) : import_of_line_panics(source[n])

get_imports(source) ==
  {import_of_line(source[n])[1] :
     n \in {m \in 1..Len(source) : import_of_line(source[m]) # None}}

\* HareKind
HareKinds == {"Type", "Fn", "Def", "Var"}

S_export == <<"e","x","p","o","r","t">>
S_type == <<"t","y","p","e">>
S_fn == <<"f","n">>
S_def == <<"d","e","f">>
S_let == <<"l","e","t">>
S_const == <<"c","o","n","s","t">>
S_at_symbol == <<"@","s","y","m","b","o","l">>

PREFIXES ==
  << [prefix |-> S_export \o <<" ">> \o S_type,  exported |-> TRUE,  kind |-> "Type"],
     [prefix |-> S_export \o <<" ">> \o S_fn,    exported |-> TRUE,  kind |-> "Fn"],
     [prefix |-> S_export \o <<" ">> \o S_def,   exported |-> TRUE,  kind |-> "Def"],
     [prefix |-> S_export \o <<" ">> \o S_let,   exported |-> TRUE,  kind |-> "Var"],
     [prefix |-> S_export \o <<" ">> \o S_const, exported |-> TRUE,  kind |-> "Var"],
     [prefix |-> S_type,  exported |-> FALSE, kind |-> "Type"],
     [prefix |-> S_fn,    exported |-> FALSE, kind |-> "Fn"],
     [prefix |-> S_def,   exported |-> FALSE, kind |-> "Def"],
     [prefix |-> S_let,   exported |-> FALSE, kind |-> "Var"],
     [prefix |-> S_const, exported |-> FALSE, kind |-> "Var"] >>

\* Range::new(Position::new(ln, start), Position::new(ln, end))
Range(ln, start, end) ==
  [start |-> [line |-> ln, character |-> start],
   end   |-> [line |-> ln, character |-> end]]

\* parse_items panics on a line with an @symbol attribute when the closing
\* parenthesis is missing (unwrap) or the computed prefix length is past the
\* end of the line (slice)
prefix_panics(line, p) ==
  LET at_idx == find_str(line, S_at_symbol)
  IN  /\ at_idx # NoIdx
      /\ LET close == find_str(Slice(line, at_idx, Len(line)), <<")">>)
         IN  close = NoIdx \/ Len(p.prefix) + close > Len(line)

\* the length of the prefix that parse_items strips for one table entry: the
\* entry's own length, or with an @symbol attribute in the line the entry's
\* length plus the distance from the attribute to its closing parenthesis
prefix_len(line, p) ==
  LET at_idx == find_str(line, S_at_symbol)
  IN  IF at_idx = NoIdx THEN Len(p.prefix)
      ELSE Len(p.prefix) + find_str(Slice(line, at_idx, Len(line)), <<")">>)

\* line.strip_prefix(prefix) for one table entry: with an @symbol attribute
\* the prefix is cut from the line itself and always matches
prefix_matches(line, p) ==
  LET at_idx == find_str(line, S_at_symbol)
  IN  IF at_idx = NoIdx THEN starts_with(line, p.prefix) ELSE TRUE

\* the item parse_items inserts for line number ln (0-based) and one matching
\* table entry
item_of(ln, line, p) ==
  LET plen == prefix_len(line, p)
      s == trim(Slice(line, plen, Len(line)))
      stop == FirstIn({j \in 1..Len(s) : ~(is_alphanumeric(s[j]) \/ s[j] = "_")})
      name == IF stop = NoIdx THEN s ELSE Slice(s, 0, stop)
      start == find_str(Slice(line, plen, Len(line)), name) + plen
  IN  [kind |-> p.kind, name |-> name,
       range |-> Range(ln, start, start + Len(name)),
       exported |-> p.exported]

parse_items_panics(doc_lines) ==
  \E n \in 1..Len(doc_lines) : \E k \in 1..Len(PREFIXES) :
     prefix_panics(doc_lines[n], PREFIXES[k])

parse_items(doc_lines) ==
  {item_of(n - 1, doc_lines[n], PREFIXES[k]) :
     <<n, k>> \in {nk \in (1..Len(doc_lines)) \X (1..Len(PREFIXES)) :
                     prefix_matches(doc_lines[nk[1]], PREFIXES[nk[2]])}}

\* Document::new and the parsing half of Document::open
Document_new_panics(ls) == parse_items_panics(ls) \/ get_imports_panics(ls)

Document_new(ls) ==
  [lines |-> ls, imports |-> get_imports(ls), items |-> parse_items(ls)]

RECURSIVE concat(_)
concat(ss) == IF ss = <<>> THEN <<>> ELSE Head(ss) \o concat(Tail(ss))

\* get_documentation, were it to take the nearest comment run above the item
\* also when other lines separate the two
get_documentation_skipping_gap(doc, item) ==
  LET item_line == item.range.start.line
      is_comment(j) == starts_with(doc.lines[j], <<"/", "/">>)
      end == LastIn({j \in 1..item_line : is_comment(j)})
      start == LastIn({j \in 1..item_line : j <= end /\ ~is_comment(j)})
  IN  IF end = NoIdx THEN None
      ELSE Some(concat([j \in 1..(end - start) |->
              Slice(doc.lines[start + 1 + j], 2, Len(doc.lines[start + 1 + j]))
                \o <<"\n">>]))

\* Document::get_documentation: None or Some(the comment run above the item,
\* each line without its marker and followed by a line feed)
get_documentation(doc, item) ==
  LET item_line == item.range.start.line
      start == LastIn({j \in 1..item_line : ~starts_with(doc.lines[j], <<"/", "/">>)})
  IN  IF start = NoIdx THEN None
      ELSE IF start + 1 < item_line
           THEN Some(concat([j \in 1..(item_line - start - 1) |->
                   Slice(doc.lines[start + 1 + j], 2, Len(doc.lines[start + 1 + j]))
                     \o <<"\n">>]))
           ELSE None

(***************************************************************************)
(* The file system the server runs on. A path is the sequence of its       *)
(* components below the root directory; a file's content is its text.      *)
(***************************************************************************)
N_proj == <<"p","r","o","j">>
N_std == <<"s","t","d">>
N_third == <<"t","h","i","r","d">>
N_fmt == <<"f","m","t">>
N_io == <<"i","o">>
N_sub == <<"s","u","b">>
N_main_ha == <<"m","a","i","n",".","h","a">>
N_util_ha == <<"u","t","i","l",".","h","a">>
N_ghost_ha == <<"g","h","o","s","t",".","h","a">>
N_notes_txt == <<"n","o","t","e","s",".","t","x","t">>
N_deep_ha == <<"d","e","e","p",".","h","a">>
N_fmt_ha == <<"f","m","t",".","h","a">>
N_p_ha == <<"p",".","h","a">>
N_q_ha == <<"q",".","h","a">>
N_locked_ha == <<"l","o","c","k","e","d",".","h","a">>
N_io_ha == <<"i","o",".","h","a">>
N_extra_ha == <<"e","x","t","r","a",".","h","a">>
N_raw_ha == <<"r","a","w",".","h","a">>
N_tag_linux == <<"+","l","i","n","u","x">>
N_tag_x86 == <<"+","x","8","6">>
N_ha == <<"h","a">>

NL == <<"\n">>

D_main ==
  <<"p","r","i","n","t","l","n">> \o NL
  \o <<"f","m","t",":",":","p","r","i","n","t","l","n">> \o NL
  \o <<"u","s","e"," ","f","m","t",";">> \o NL
  \o <<"u","s","e"," ","f","m","t",":",":","p","r","i","n","t","l","n",";">> \o NL
  \o <<"f","n"," ","m","a","i","n">> \o NL

D_util ==
  <<"f","n"," ","h","e","l","p","e","r">> \o NL

D_deep ==
  <<"f","n"," ","d","e","e","p">> \o NL

D_fmt ==
  <<"u","s","e"," ","i","o",";">> \o NL
  \o <<"/","/"," ","p","r","i","n","t","s"," ","a"," ","l","i","n","e">> \o NL
  \o <<"e","x","p","o","r","t"," ","f","n"," ","p","r","i","n","t">> \o NL
  \o <<"f","n"," ","p","r","i","n","t","l","n">> \o NL

D_p ==
  <<"e","x","p","o","r","t"," ","f","n"," ","p","r","i","n","t","l","n">> \o NL
  \o <<"p","r","i","n","t","l","n">> \o NL
  \o <<"e","x","p","o","r","t"," ","l","e","t"," ","p","r","i","n","t","l","n">> \o NL

D_q ==
  <<"e","x","p","o","r","t"," ","f","n"," ","f","l","u","s","h">> \o NL

D_io ==
  <<"/","/"," ","w","r","i","t","e","s">> \o NL
  \o <<"e","x","p","o","r","t"," ","f","n"," ","w","r","i","t","e">> \o NL

D_extra ==
  <<"e","x","p","o","r","t"," ","f","n"," ","e","x","t","r","a">> \o NL
  \o <<"e","x","p","o","r","t"," ","f","n"," ","f"," ","@","s","y","m","b","o","l","(","c",")">> \o NL

D_raw ==
  <<"e","x","p","o","r","t"," ","f","n"," ","r","a","w">> \o NL

D_notes ==
  <<"f","n"," ","n","o","t","e">> \o NL

\* the directories
DirPaths ==
  { <<N_proj>>, <<N_proj, N_sub>>,
    <<N_std>>, <<N_std, N_fmt>>, <<N_std, N_fmt, N_tag_linux>>,
    <<N_std, N_fmt, N_tag_linux, N_tag_x86>>, <<N_std, N_io>>,
    <<N_third>>, <<N_third, N_fmt>>, <<N_third, N_io>> }

\* the regular files and their content
Disk ==
  ( <<N_proj, N_main_ha>> :> D_main ) @@
  ( <<N_proj, N_util_ha>> :> D_util ) @@
  ( <<N_proj, N_notes_txt>> :> D_notes ) @@
  ( <<N_proj, N_sub, N_deep_ha>> :> D_deep ) @@
  ( <<N_std, N_fmt, N_fmt_ha>> :> D_fmt ) @@
  ( <<N_std, N_fmt, N_locked_ha>> :> D_raw ) @@
  ( <<N_std, N_fmt, N_tag_linux, N_p_ha>> :> D_p ) @@
  ( <<N_std, N_fmt, N_tag_linux, N_tag_x86, N_q_ha>> :> D_q ) @@
  ( <<N_std, N_io, N_io_ha>> :> D_io ) @@
  ( <<N_third, N_fmt, N_extra_ha>> :> D_extra ) @@
  ( <<N_third, N_io, N_raw_ha>> :> D_raw )

FilePaths == DOMAIN Disk

\* files that File::open refuses and directories that read_dir refuses
UnreadableFiles == { <<N_std, N_fmt, N_locked_ha>> }
UnreadableDirs == { <<N_third, N_io>> }

\* HAREPATH, split at ':'
search_paths == << <<N_std>>, <<N_third>> >>

\* Path::is_dir, Path::is_file
is_dir(p) == p \in DirPaths
is_file(p) == p \in FilePaths

\* Path::file_name and Path::parent of a path with at least one component
file_name(p) == p[Len(p)]
parent(p) == SubSeq(p, 1, Len(p) - 1)

\* Path::extension: the part of the file name after its last '.', None when
\* there is no '.' or the only one starts the name
extension(p) ==
  LET name == file_name(p)
      dot == LastIn({j \in 1..Len(name) : name[j] = "."})
  IN  IF dot = NoIdx \/ dot = 0 THEN None
      ELSE Some(Slice(name, dot + 1, Len(name)))

\* std::fs::read_dir(dir): the entries of a readable directory
read_dir(dir) ==
  {p \in DirPaths \cup FilePaths :
     Len(p) = Len(dir) + 1 /\ SubSeq(p, 1, Len(dir)) = dir}

\* path_to_uri: format!("file://{}", path).parse(); the paths of this file
\* system are valid URI text, so the parse succeeds
path_to_uri(filepath) == [scheme |-> "file", path |-> filepath]

\* Uri::path
uri_path(uri) == uri.path

\* PathBuf::extend(import) on a search path: every segment is pushed, and
\* pushing an empty segment leaves the directory the same
module_path(path, import) ==
  path \o SelectSeq(import, LAMBDA seg : seg # <<>>)

\* Document::open: Err when the file cannot be opened, else the parsed lines;
\* it panics where the parsers panic
Document_open_ok(uri) == uri_path(uri) \in FilePaths \ UnreadableFiles

\* the lines BufReader::lines reads from every file that can be opened
DiskLines == [p \in FilePaths \ UnreadableFiles |-> lines(Disk[p])]

\* what Document::open makes of every file that can be opened and parsed
DiskDocuments ==
  [p \in {f \in FilePaths \ UnreadableFiles : ~Document_new_panics(DiskLines[f])}
     |-> Document_new(DiskLines[p])]

Document_open_panics(uri) ==
  Document_open_ok(uri) /\ uri_path(uri) \notin DOMAIN DiskDocuments

Document_open(uri) == DiskDocuments[uri_path(uri)]

(***************************************************************************)
(* main.rs: the Directory Indexer and the Import Loader                    *)
(***************************************************************************)
\* HashMap::insert
insert(docs, uri, doc) ==
  [u \in DOMAIN docs \cup {uri} |-> IF u = uri THEN doc ELSE docs[u]]

\* HashMap::remove
remove(docs, uri) == [u \in DOMAIN docs \ {uri} |-> docs[u]]

\* the build-tag test of add_docs_from_directory and module_files
is_tag(name) == starts_with(name, <<"+">>)

is_source(p) == is_file(p) /\ extension(p) = Some(N_ha)

\* the directories add_docs_from_directory reads for dir_path: dir_path and,
\* through the recursive call, every chain of build-tag subdirectories
RECURSIVE walked_dirs(_)
walked_dirs(dir_path) ==
  IF ~is_dir(dir_path) \/ dir_path \in UnreadableDirs THEN {}
  ELSE {dir_path} \cup
       UNION {walked_dirs(e) :
                e \in {x \in read_dir(dir_path) :
                         ~is_source(x) /\ is_dir(x) /\ is_tag(file_name(x))}}

\* the files add_docs_from_directory passes to Document::open for dir_path
opened_files(dir_path) ==
  UNION {{e \in read_dir(d) : is_source(e)} : d \in walked_dirs(dir_path)}

RECURSIVE insert_all(_, _)
insert_all(docs, uris) ==
  IF uris = {} THEN docs
  ELSE LET uri == CHOOSE u \in uris : TRUE
       IN  insert_all(insert(docs, uri, Document_open(uri)), uris \ {uri})

\* add_docs_from_directory: every source file found is opened and, when that
\* succeeds, inserted under its uri
add_docs_from_directory(docs, dir_path) ==
  insert_all(docs, {uri \in {path_to_uri(e) : e \in opened_files(dir_path)} :
                      Document_open_ok(uri)})

add_docs_from_directory_panics(dir_path) ==
  \E e \in opened_files(dir_path) : Document_open_panics(path_to_uri(e))

\* the directories add_docs_from_imports hands to add_docs_from_directory
import_dirs(imports, paths) ==
  {module_path(paths[k], import) :
     import \in imports, k \in 1..Len(paths)}

RECURSIVE index_all(_, _)
index_all(docs, dirs) ==
  IF dirs = {} THEN docs
  ELSE LET d == CHOOSE x \in dirs : TRUE
       IN  index_all(add_docs_from_directory(docs, d), dirs \ {d})

\* add_docs_from_imports, were it to look under the first search path only
add_docs_from_imports_first_path(docs, imports, paths) ==
  index_all(docs, {module_path(paths[1], import) : import \in imports})

\* add_docs_from_imports
add_docs_from_imports(docs, imports, paths) ==
  index_all(docs, import_dirs(imports, paths))

add_docs_from_imports_panics(imports, paths) ==
  \E d \in import_dirs(imports, paths) : add_docs_from_directory_panics(d)

(***************************************************************************)
(* main.rs: the Module Resolver                                            *)
(***************************************************************************)
\* module_from_uri panics for a file directly under the root directory
module_from_uri_panics(uri) == Len(uri_path(uri)) < 2

\* module_from_uri: the name of the file's parent directory
module_from_uri(uri) == file_name(parent(uri_path(uri)))

\* resolve_ident, were it to resolve every identifier against the current
\* module
resolve_ident_local(current_module, ident, imports) ==
  {<<current_module>> \o ident}

\* resolve_ident: the set of identifiers it can return. The imports are a
\* HashSet, iterated in an unspecified order, and the first import whose last
\* segment is the identifier's first segment decides.
resolve_ident(current_module, ident, imports) ==
  LET matching == {import \in imports : import[Len(import)] = ident[1]}
  IN  IF matching # {}
      THEN {import \o Tail(ident) : import \in matching}
      ELSE {<<current_module>> \o ident}

\* resolved_ident[resolved_ident.len().saturating_sub(2)]
item_module_of(resolved_ident) ==
  resolved_ident[(IF Len(resolved_ident) >= 2 THEN Len(resolved_ident) - 2 ELSE 0) + 1]

\* module_of_ident: the set of module names it can return
module_of_ident(ident, current_module, imports) ==
  {item_module_of(r) : r \in resolve_ident(current_module, ident, imports)}

\* module_files: the uris of the store whose file belongs to current_module
module_files(docs, current_module) ==
  {k \in DOMAIN docs :
     LET path == uri_path(k)
         n == Len(path)
     IN  /\ n >= 1
         /\ extension(path) = Some(N_ha)
         /\ n >= 2
         /\ \/ path[n - 1] = current_module
            \/ /\ is_tag(path[n - 1])
               /\ n >= 3
               /\ path[n - 2] = current_module}

\* find_item, were it to ignore the exported flag
find_item_any(items, ident) ==
  {item \in items : item.name = ident[Len(ident)]}

\* find_item: the set of items it can return (the items are a HashSet and the
\* first match in iteration order is returned); empty when it returns None
find_item(items, ident) ==
  LET expected == ident[Len(ident)]
      local == Len(ident) = 1
  IN  {item \in items : item.name = expected /\ (local \/ item.exported)}

(***************************************************************************)
(* main.rs: the Query Engine                                               *)
(***************************************************************************)
Location(uri, range) == [uri |-> uri, range |-> range]

\* GotoDefinitionResponse: Scalar for exactly one location, else Array
definition_response(locations) ==
  IF Cardinality(locations) = 1
  THEN [form |-> "Scalar", locations |-> locations]
  ELSE [form |-> "Array", locations |-> locations]

\* find_definition panics where get_identifier does
find_definition_panics(docs, uri, pos) ==
  \/ module_from_uri_panics(uri)
  \/ /\ uri \in DOMAIN docs
     /\ pos.line < Len(docs[uri].lines)
     /\ get_identifier_panics(docs[uri].lines[pos.line + 1], pos.character)

\* the identifier under the cursor, for a position inside the document
cursor_ident(docs, uri, pos) ==
  get_identifier(docs[uri].lines[pos.line + 1], pos.character)

\* the loop of find_definition for one target module: the set of responses
\* it can give, one location for every file of the target module in which
\* find_item finds an item
find_definition_in(docs, ident, item_module) ==
  LET hit == {u \in module_files(docs, item_module) :
                find_item(docs[u].items, ident) # {}}
      picks == {f \in [hit -> UNION {docs[u].items : u \in hit}] :
                  \A u \in hit : f[u] \in find_item(docs[u].items, ident)}
  IN  {definition_response({Location(u, f[u].range) : u \in hit}) :
         f \in picks}

\* find_definition: the set of responses it can give
find_definition(docs, uri, pos) ==
  IF uri \notin DOMAIN docs \/ pos.line >= Len(docs[uri].lines)
  THEN {definition_response({})}
  ELSE
    LET ident == cursor_ident(docs, uri, pos)
    IN  UNION {find_definition_in(docs, ident, item_module_of(r)) :
                 r \in resolve_ident(module_from_uri(uri), ident,
                                     docs[uri].imports)}

\* generate_hover and generate_completions index lines[loc.line] unchecked
query_unchecked_panics(docs, uri, pos) ==
  \/ module_from_uri_panics(uri)
  \/ /\ uri \in DOMAIN docs
     /\ \/ pos.line >= Len(docs[uri].lines)
        \/ get_identifier_panics(docs[uri].lines[pos.line + 1], pos.character)

generate_hover_panics(docs, uri, pos) == query_unchecked_panics(docs, uri, pos)

\* the Hover made of an item's documentation, None without documentation
hover_of(module, item) ==
  LET d == get_documentation(module, item)
  IN  IF d = None THEN None
      ELSE Some([contents |-> d[1], range |-> item.range])

\* the <<uri, item>> pairs at which the loop of generate_hover can return:
\* a file of the target module and the item find_item returns in it
hover_hits(docs, ident, item_module) ==
  {ui \in module_files(docs, item_module) \X
            UNION {docs[u].items : u \in DOMAIN docs} :
     ui[2] \in find_item(docs[ui[1]].items, ident)}

\* the loop of generate_hover for one target module: the set of answers it
\* can give. The first file of the target module, in the store's iteration
\* order, in which find_item finds an item decides.
generate_hover_in(docs, ident, item_module) ==
  LET hits == hover_hits(docs, ident, item_module)
  IN  IF hits = {} THEN {None}
      ELSE {hover_of(docs[h[1]], h[2]) : h \in hits}

\* generate_hover: the set of answers it can give, None or Some(Hover)
generate_hover(docs, uri, pos) ==
  IF uri \notin DOMAIN docs THEN {None}
  ELSE
    LET ident == cursor_ident(docs, uri, pos)
    IN  UNION {generate_hover_in(docs, ident, m) :
                 m \in module_of_ident(ident, module_from_uri(uri),
                                       docs[uri].imports)}

CompletionItemKind(kind) ==
  CASE kind = "Type" -> "STRUCT"
    [] kind = "Fn"   -> "FUNCTION"
    [] kind = "Def"  -> "CONSTANT"
    [] kind = "Var"  -> "VARIABLE"

generate_completions_panics(docs, uri, pos) == query_unchecked_panics(docs, uri, pos)

\* the CompletionItem of one item
completion_of(module, item) ==
  [label |-> item.name, kind |-> CompletionItemKind(item.kind),
   documentation |-> get_documentation(module, item)]

\* the loop of generate_completions for one target module: the bag of
\* CompletionItems (the order of the array is the store's iteration order),
\* one item for every item of every file of the target module
generate_completions_in(docs, item_module) ==
  LET src == {ui \in module_files(docs, item_module) \X
                       UNION {docs[u].items : u \in DOMAIN docs} :
                ui[2] \in docs[ui[1]].items}
      out == {completion_of(docs[ui[1]], ui[2]) : ui \in src}
  IN  [c \in out |->
         Cardinality({ui \in src : completion_of(docs[ui[1]], ui[2]) = c})]

\* generate_completions: the set of answers it can give
generate_completions(docs, uri, pos) ==
  IF uri \notin DOMAIN docs THEN {EmptyBag}
  ELSE
    LET ident == cursor_ident(docs, uri, pos)
    IN  {generate_completions_in(docs, m) :
           m \in module_of_ident(ident, module_from_uri(uri),
                                 docs[uri].imports)}

(***************************************************************************)
(* main.rs: the open and change notifications                              *)
(***************************************************************************)
\* initialize_docs returns Err when the opened file itself cannot be opened
initialize_docs_fails(uri) == ~Document_open_ok(uri)

initialize_docs_panics(uri) ==
  /\ Document_open_ok(uri)
  /\ \/ Document_open_panics(uri)
     \/ add_docs_from_imports_panics(Document_open(uri).imports, search_paths)
     \/ add_docs_from_directory_panics(parent(uri_path(uri)))

\* the directories initialize_docs hands to add_docs_from_directory
initialize_docs_dirs(uri) ==
  import_dirs(Document_open(uri).imports, search_paths)
    \cup {parent(uri_path(uri))}

\* the store of initialize_docs after both indexing calls, before the insert
initialize_docs_indexed(docs, uri) ==
  add_docs_from_directory(
    add_docs_from_imports(docs, Document_open(uri).imports, search_paths),
    parent(uri_path(uri)))

\* initialize_docs: the text of the notification is not used, the file is
\* read from disk
initialize_docs(docs, uri) ==
  insert(initialize_docs_indexed(docs, uri), uri, Document_open(uri))

\* a TextDocumentContentChangeEvent: range is None for a full replacement
ContentChange(range, text) == [range |-> range, text |-> text]

\* the imports to load, were update_docs to load every import of the new text
added_imports_all(updated_doc, doc) == updated_doc.imports

\* updated_doc.imports.difference(&doc.imports)
added_imports(updated_doc, doc) == updated_doc.imports \ doc.imports

\* update_docs panics on its assertion, after the entry was removed, and
\* where the parsers or the indexer panic
update_docs_panics(docs, uri, content_changes) ==
  /\ uri \in DOMAIN docs
  /\ \/ Len(content_changes) # 1
     \/ Document_new_panics(lines(content_changes[1].text))
     \/ add_docs_from_imports_panics(
          added_imports(Document_new(lines(content_changes[1].text)), docs[uri]),
          search_paths)

\* the store update_docs leaves behind when it panics
update_docs_at_panic(docs, uri, content_changes) == remove(docs, uri)

\* the imports handed to add_docs_from_imports, were update_docs to parse and
\* load the new text without looking the uri up in the store
update_docs_loaded_unguarded(docs, uri, content_changes) ==
  IF Len(content_changes) = 0 THEN {}
  ELSE IF Document_new_panics(lines(content_changes[1].text)) THEN {}
  ELSE LET updated_doc == Document_new(lines(content_changes[1].text))
       IN  IF uri \in DOMAIN docs
           THEN added_imports(updated_doc, docs[uri])
           ELSE updated_doc.imports

\* the imports update_docs hands to add_docs_from_imports
update_docs_loaded(docs, uri, content_changes) ==
  IF uri \in DOMAIN docs
  THEN added_imports(Document_new(lines(content_changes[1].text)), docs[uri])
  ELSE {}

\* the store of update_docs after the import loading, before the insert
update_docs_indexed(docs, uri, content_changes) ==
  add_docs_from_imports(remove(docs, uri),
                        update_docs_loaded(docs, uri, content_changes),
                        search_paths)

\* update_docs, were it to leave out the final insert
update_docs_without_insert(docs, uri, content_changes) ==
  IF uri \in DOMAIN docs
  THEN update_docs_indexed(docs, uri, content_changes)
  ELSE docs

update_docs(docs, uri, content_changes) ==
  IF uri \in DOMAIN docs
  THEN insert(update_docs_indexed(docs, uri, content_changes), uri,
              Document_new(lines(content_changes[1].text)))
  ELSE docs

(***************************************************************************)
(* The event loop of main                                                  *)
(***************************************************************************)
\* what the client sends: the uris it names, the texts it supplies, and the
\* cursor positions it asks about
U_main == path_to_uri(<<N_proj, N_main_ha>>)
U_util == path_to_uri(<<N_proj, N_util_ha>>)
U_ghost == path_to_uri(<<N_proj, N_ghost_ha>>)

\* the uris of open notifications; U_ghost names a file that is not on disk
OpenUris == {U_main, U_util, U_ghost}

\* the uris of change notifications: a file the client opens, and a file
\* it never opened successfully
ClientUris == {U_main, U_ghost}

\* the uris of requests: the client's own files and a file of a module it
\* imports, reached by following a definition
U_p == path_to_uri(<<N_std, N_fmt, N_tag_linux, N_p_ha>>)
QueryUris == {U_main, U_util, U_p}

T_plain ==
  <<"f","n"," ","m","a","i","n">> \o NL

T_io ==
  <<"i","o",":",":","w","r","i","t","e">> \o NL
  \o <<"u","s","e"," ","i","o",";">> \o NL
  \o <<"u","s","e"," ","x",":",":","i","o",";">> \o NL

T_use ==
  <<"u","s","e",";">> \o NL

ClientTexts == {T_plain, T_io}

MaxLine == 1
MaxCol == 5
MaxChanges == 2

\* cursor positions: every line up to MaxLine, at the start of the line and
\* at column MaxCol
Positions == [line : 0..MaxLine, character : {0, MaxCol}]

\* the content_changes lists of a change notification: up to MaxChanges
\* changes, each a full replacement, or a ranged edit of line 0
ContentChanges ==
  {ContentChange(None, t) : t \in ClientTexts \cup {T_use}}
    \cup {ContentChange(Some(Range(0, 0, 0)), T_plain)}

\* a list of several changes repeats one change: update_docs reads the
\* length of the list and its first element only
ContentChangeLists ==
  UNION {{[i \in 1..n |-> c] : c \in ContentChanges} : n \in 0..MaxChanges}

VARIABLES
  docs,      \* main's docs: HashMap<Uri, Document>
  status,    \* "running" in the loop, "exited" after shutdown, "failed" after
             \* main returned an error or panicked
  prev,      \* history: docs when the last event was received
  last,      \* history: the last event and what its handler did
  supplied   \* history: uri -> the full text the client last supplied for it,
             \* in an open, or in a change of a uri the store holds

vars == <<docs, status, prev, last, supplied>>

Init ==
  /\ docs = <<>>
  /\ status = "running"
  /\ prev = <<>>
  /\ last = [kind |-> "start"]
  /\ supplied = <<>>

\* a textDocument/didOpen notification
DidOpen(uri, text) ==
  /\ status = "running"
  /\ prev' = docs
  /\ supplied' = insert(supplied, uri, text)
  /\ IF initialize_docs_fails(uri)
     THEN /\ status' = "failed"
          /\ docs' = docs
          /\ last' = [kind |-> "open", uri |-> uri, outcome |-> "error"]
     ELSE IF initialize_docs_panics(uri)
     THEN /\ status' = "failed"
          /\ docs' = docs
          /\ last' = [kind |-> "open", uri |-> uri, outcome |-> "panic"]
     ELSE /\ status' = "running"
          /\ docs' = initialize_docs(docs, uri)
          /\ last' = [kind |-> "open", uri |-> uri, outcome |-> "ok",
                      dirs |-> initialize_docs_dirs(uri),
                      before |-> docs,
                      indexed |-> initialize_docs_indexed(docs, uri)]

\* a textDocument/didChange notification
DidChange(uri, content_changes) ==
  /\ status = "running"
  /\ prev' = docs
  /\ supplied' =
       IF /\ uri \in DOMAIN docs
          /\ Len(content_changes) = 1
          /\ content_changes[1].range = None
       THEN insert(supplied, uri, content_changes[1].text)
       ELSE supplied
  /\ IF update_docs_panics(docs, uri, content_changes)
     THEN /\ status' = "failed"
          /\ docs' = update_docs_at_panic(docs, uri, content_changes)
          /\ last' = [kind |-> "change", uri |-> uri,
                      content_changes |-> content_changes, outcome |-> "panic"]
     ELSE /\ status' = "running"
          /\ docs' = update_docs(docs, uri, content_changes)
          /\ last' = [kind |-> "change", uri |-> uri,
                      content_changes |-> content_changes, outcome |-> "ok",
                      loaded |-> update_docs_loaded(docs, uri, content_changes),
                      dirs |-> import_dirs(
                                 update_docs_loaded(docs, uri, content_changes),
                                 search_paths),
                      before |-> remove(docs, uri),
                      indexed |-> IF uri \in DOMAIN docs
                                  THEN update_docs_indexed(docs, uri, content_changes)
                                  ELSE remove(docs, uri)]

\* what a request that reached the resolver records: the cursor identifier,
\* the current module, the resolved path and the target module
Resolution(uri, pos, r) ==
  [ident |-> cursor_ident(docs, uri, pos),
   doc_module |-> module_from_uri(uri),
   resolved |-> r,
   item_module |-> item_module_of(r)]

\* a textDocument/definition request
GotoDefinition(uri, pos) ==
  /\ status = "running"
  /\ prev' = docs
  /\ UNCHANGED <<docs, supplied>>
  /\ LET event == [kind |-> "definition", uri |-> uri, pos |-> pos]
     IN
     IF find_definition_panics(docs, uri, pos)
     THEN /\ status' = "failed"
          /\ last' = event @@ [outcome |-> "panic"]
     ELSE /\ status' = "running"
          /\ IF uri \notin DOMAIN docs \/ pos.line >= Len(docs[uri].lines)
             THEN last' = event @@ [outcome |-> "ok", resolution |-> None,
                                    result |-> definition_response({})]
             ELSE \E r \in resolve_ident(module_from_uri(uri),
                                         cursor_ident(docs, uri, pos),
                                         docs[uri].imports) :
                  \E defs \in find_definition_in(docs,
                                cursor_ident(docs, uri, pos), item_module_of(r)) :
                    last' = event @@
                      [outcome |-> "ok",
                       resolution |-> Some(Resolution(uri, pos, r)),
                       result |-> defs]

\* a textDocument/hover request
HoverRequest(uri, pos) ==
  /\ status = "running"
  /\ prev' = docs
  /\ UNCHANGED <<docs, supplied>>
  /\ LET event == [kind |-> "hover", uri |-> uri, pos |-> pos]
     IN
     IF generate_hover_panics(docs, uri, pos)
     THEN /\ status' = "failed"
          /\ last' = event @@ [outcome |-> "panic"]
     ELSE /\ status' = "running"
          /\ IF uri \notin DOMAIN docs
             THEN last' = event @@ [outcome |-> "ok", resolution |-> None,
                                    hit |-> None, result |-> None]
             ELSE \E r \in resolve_ident(module_from_uri(uri),
                                         cursor_ident(docs, uri, pos),
                                         docs[uri].imports) :
                  LET hits == hover_hits(docs, cursor_ident(docs, uri, pos),
                                         item_module_of(r))
                      found == [outcome |-> "ok",
                                resolution |-> Some(Resolution(uri, pos, r))]
                  IN  IF hits = {}
                      THEN last' = event @@ found @@
                                     [hit |-> None, result |-> None]
                      ELSE \E h \in hits :
                             last' = event @@ found @@
                               [hit |-> Some(h),
                                result |-> hover_of(docs[h[1]], h[2])]

\* a textDocument/completion request
Completion(uri, pos) ==
  /\ status = "running"
  /\ prev' = docs
  /\ UNCHANGED <<docs, supplied>>
  /\ LET event == [kind |-> "completion", uri |-> uri, pos |-> pos]
     IN
     IF generate_completions_panics(docs, uri, pos)
     THEN /\ status' = "failed"
          /\ last' = event @@ [outcome |-> "panic"]
     ELSE /\ status' = "running"
          /\ IF uri \notin DOMAIN docs
             THEN last' = event @@ [outcome |-> "ok", resolution |-> None,
                                    result |-> EmptyBag]
             ELSE \E r \in resolve_ident(module_from_uri(uri),
                                         cursor_ident(docs, uri, pos),
                                         docs[uri].imports) :
                    last' = event @@
                      [outcome |-> "ok",
                       resolution |-> Some(Resolution(uri, pos, r)),
                       result |-> generate_completions_in(docs, item_module_of(r))]

\* the shutdown request ends the loop
Shutdown ==
  /\ status = "running"
  /\ status' = "exited"
  /\ prev' = docs
  /\ last' = [kind |-> "shutdown"]
  /\ UNCHANGED <<docs, supplied>>

Next ==
  \/ \E uri \in OpenUris, text \in ClientTexts : DidOpen(uri, text)
  \/ \E uri \in ClientUris, cc \in ContentChangeLists : DidChange(uri, cc)
  \/ \E uri \in QueryUris, pos \in Positions : GotoDefinition(uri, pos)
  \/ \E uri \in QueryUris, pos \in Positions : HoverRequest(uri, pos)
  \/ \E uri \in QueryUris, pos \in Positions : Completion(uri, pos)
  \/ Shutdown

Spec == Init /\ [][Next]_vars

(***************************************************************************)
(* Properties                                                              *)
(***************************************************************************)
Handled == last.kind \in {"open", "change"} /\ last.outcome = "ok"

\* C1: the Directory Indexer leaves every entry that is already in the store
\* as it was: the store after the indexing calls of an open or change event
\* agrees with the store before them on every uri that was already a key.
C1_IndexingKeepsExistingEntries ==
  Handled =>
    \A u \in DOMAIN last.before :
      u \in DOMAIN last.indexed /\ last.indexed[u] = last.before[u]

\* C2: for every uri for which the client supplied text, the Document stored
\* under that uri holds the lines of the text supplied last.
C2_StoreHoldsSuppliedText ==
  status = "running" =>
    \A u \in DOMAIN supplied :
      u \in DOMAIN docs => docs[u].lines = lines(supplied[u])

\* the source files of directory d that can be read: those directly in d and
\* those in a build-tag subdirectory of d
SourceFilesOf(d) ==
  IF d \notin DirPaths \ UnreadableDirs THEN {}
  ELSE {f \in FilePaths \ UnreadableFiles :
          /\ extension(f) = Some(N_ha)
          /\ \/ parent(f) = d
             \/ /\ Len(f) >= 3
                /\ is_tag(file_name(parent(f)))
                /\ parent(f) \notin UnreadableDirs
                /\ parent(parent(f)) = d}

\* the module directories, under every search root, of a set of imports
ModuleDirs(imports) ==
  {search_paths[k] \o import : k \in 1..Len(search_paths), import \in imports}

ImportsOfFiles(files) == UNION {get_imports(DiskLines[f]) : f \in files}

\* the source files reachable from a set of files by following imports
RECURSIVE ReachableFiles(_)
ReachableFiles(files) ==
  LET more == files \cup
              UNION {SourceFilesOf(d) : d \in ModuleDirs(ImportsOfFiles(files))}
  IN  IF more = files THEN files ELSE ReachableFiles(more)

OpenCompleted == last.kind = "open" /\ last.outcome = "ok"

\* C3 as stated: after an open event the store holds every source file of the
\* opened file's directory and of every module directory reachable from the
\* opened file through imports, transitively.
C3_OpenLoadsTransitiveImports ==
  OpenCompleted =>
    \A f \in SourceFilesOf(parent(uri_path(last.uri)))
               \cup ReachableFiles({uri_path(last.uri)}) :
      path_to_uri(f) \in DOMAIN docs

\* C3 as amended: after an open event the store holds every readable source
\* file of the opened file's directory and of every module directory, under
\* every search root, that the opened file itself imports.
C3_OpenLoadsDirectImports ==
  OpenCompleted =>
    \A f \in SourceFilesOf(parent(uri_path(last.uri)))
               \cup UNION {SourceFilesOf(d) :
                      d \in ModuleDirs(ImportsOfFiles({uri_path(last.uri)}))} :
      path_to_uri(f) \in DOMAIN docs

\* an open event completed for a file whose imported module imports a module
\* in turn: the imported module's files are in the store, under both search
\* roots, and the module it imports is not
C3_Witness ==
  /\ OpenCompleted
  /\ last.uri = U_main
  /\ path_to_uri(<<N_std, N_fmt, N_fmt_ha>>) \in DOMAIN docs
  /\ path_to_uri(<<N_third, N_fmt, N_extra_ha>>) \in DOMAIN docs
  /\ <<N_io>> \in docs[path_to_uri(<<N_std, N_fmt, N_fmt_ha>>)].imports
  /\ path_to_uri(<<N_std, N_io, N_io_ha>>) \notin DOMAIN docs

ChangeCompleted ==
  last.kind = "change" /\ last.outcome = "ok" /\ last.uri \in DOMAIN prev

\* C4: a change event for a stored file runs the Import Loader on exactly the
\* imports of the new text that the stored Document did not have; when there
\* is none, no directory is indexed and no entry but the changed file's own is
\* added or modified.
C4_ChangeLoadsOnlyAddedImports ==
  ChangeCompleted =>
    LET new == get_imports(lines(last.content_changes[1].text))
        old == prev[last.uri].imports
    IN  /\ last.loaded = new \ old
        /\ new \ old = {} =>
             /\ last.dirs = {}
             /\ DOMAIN docs = DOMAIN prev
             /\ \A u \in DOMAIN docs \ {last.uri} : docs[u] = prev[u]

\* a change event removed every import from a file that had imports
C4_Witness ==
  /\ ChangeCompleted
  /\ prev[last.uri].imports # {}
  /\ docs[last.uri].imports = {}
  /\ last.loaded = {}

\* C5: the set of uris in the store never loses a member from one event to
\* the next while the loop runs.
C5_StoreKeysNeverShrink ==
  status # "failed" => DOMAIN prev \subseteq DOMAIN docs

\* a change event replaced the entry of a stored file
C5_Witness ==
  /\ ChangeCompleted
  /\ last.uri \in DOMAIN docs
  /\ docs[last.uri] # prev[last.uri]
  /\ Cardinality(DOMAIN docs) > 1

IsQuery == last.kind \in {"definition", "hover", "completion"}

LineOutOfRange ==
  /\ IsQuery
  /\ last.uri \in DOMAIN prev
  /\ last.pos.line >= Len(prev[last.uri].lines)

\* C6: a definition, hover or completion query whose line number is not less
\* than the document's line count gives the empty result and the loop goes on.
C6_LineOutOfRangeIsEmpty ==
  LineOutOfRange =>
    /\ status = "running"
    /\ last.outcome = "ok"
    /\ last.kind = "definition" => last.result = definition_response({})
    /\ last.kind = "hover" => last.result = None
    /\ last.kind = "completion" => last.result = EmptyBag

\* C7: an open event for a file that cannot be opened does not end the loop.
C7_OpenFailureIsSkipped ==
  (last.kind = "open" /\ ~Document_open_ok(last.uri)) => status = "running"

UnsupportedShape(content_changes) ==
  ~(Len(content_changes) = 1 /\ content_changes[1].range = None)

\* C8: a change notification whose content changes are not exactly one full
\* replacement leaves the store as it was and the loop goes on.
C8_UnsupportedChangeIsNoOp ==
  (last.kind = "change" /\ UnsupportedShape(last.content_changes)) =>
    status = "running" /\ docs = prev

DefinitionAnswered ==
  /\ last.kind = "definition"
  /\ last.outcome = "ok"
  /\ last.uri \in DOMAIN docs
  /\ last.pos.line < Len(docs[last.uri].lines)

CursorIdent ==
  get_identifier(docs[last.uri].lines[last.pos.line + 1], last.pos.character)

\* the Symbols of the file under uri u that a location of the result names
ReturnedItems(u) ==
  {item \in docs[u].items :
     \E loc \in last.result.locations : loc.uri = u /\ loc.range = item.range}

\* C9: in a definition query a file of the target module contributes a
\* location exactly when it has a Symbol with the searched name that passes
\* the visibility rule: any Symbol for a one-segment identifier, an exported
\* Symbol for an identifier of two or more segments; and every location
\* returned is that of such a Symbol.
C9_DefinitionVisibility ==
  DefinitionAnswered =>
    LET ident == CursorIdent
        name == ident[Len(ident)]
        passes(item) == item.name = name /\ (Len(ident) = 1 \/ item.exported)
    IN  /\ \A loc \in last.result.locations :
             \E item \in docs[loc.uri].items :
               item.range = loc.range /\ passes(item)
        /\ \E r \in resolve_ident(module_from_uri(last.uri), ident,
                                  docs[last.uri].imports) :
             \A u \in module_files(docs, item_module_of(r)) :
               (\E item \in docs[u].items : passes(item))
                 <=> (\E loc \in last.result.locations : loc.uri = u)

\* a definition query on a qualified identifier returned the exported Symbol
\* of the target module and not the non-exported Symbol of the same name
C9_Witness ==
  /\ DefinitionAnswered
  /\ Len(CursorIdent) >= 2
  /\ last.result.locations # {}
  /\ \E u \in DOMAIN docs :
       /\ \E item \in docs[u].items :
            item.name = CursorIdent[Len(CursorIdent)] /\ ~item.exported
       /\ \A loc \in last.result.locations : loc.uri # u

\* C10: for a one-segment cursor identifier that equals the last segment of
\* an import, the locations returned are in files of the module named by the
\* import's second-to-last segment, are of Symbols named by the identifier,
\* and are of exported Symbols only.
C10_ImportedNameIsExportedOnly ==
  DefinitionAnswered =>
    LET ident == CursorIdent
        via == {import \in docs[last.uri].imports :
                  Len(import) >= 2 /\ import[Len(import)] = ident[1]}
    IN  (Len(ident) = 1 /\ via # {}) =>
          \A loc \in last.result.locations :
            /\ \E import \in via :
                 loc.uri \in module_files(docs, import[Len(import) - 1])
            /\ \A item \in ReturnedItems(loc.uri) :
                 item.name = ident[1] /\ item.exported

\* a request that reached the resolver
Resolved ==
  /\ IsQuery
  /\ last.outcome = "ok"
  /\ last.resolution # None

\* the module a file belongs to by its path: the name of its parent
\* directory, or of its grandparent directory when the parent is a build-tag
\* directory
ModuleNameOf(path) ==
  IF is_tag(file_name(parent(path))) /\ Len(path) >= 3
  THEN file_name(parent(parent(path)))
  ELSE file_name(parent(path))

\* C11: the current module of the file a query is issued from, and the
\* module under which a file of the store is enumerated for a target
\* module, is the name of the file's parent directory, or of its grandparent
\* directory when the parent's name begins with '+'.
C11_ModuleNameSkipsBuildTag ==
  Resolved =>
    /\ last.resolution[1].doc_module = ModuleNameOf(uri_path(last.uri))
    /\ \A u \in module_files(docs, last.resolution[1].item_module) :
         ModuleNameOf(uri_path(u)) = last.resolution[1].item_module

\* the <<uri, Symbol>> pairs of the target module of the last query whose
\* Symbol has the searched name and passes the visibility rule
MatchingSymbols ==
  LET ident == last.resolution[1].ident
      name == ident[Len(ident)]
  IN  {ui \in module_files(docs, last.resolution[1].item_module) \X
                UNION {docs[u].items : u \in DOMAIN docs} :
         /\ ui[2] \in docs[ui[1]].items
         /\ ui[2].name = name
         /\ (Len(ident) = 1 \/ ui[2].exported)}

\* C12: a definition query returns one location for every matching Symbol
\* of every Document of the target module, two for two matching Symbols of
\* one Document, and answers in the single-location form exactly when there
\* is one such Symbol.
C12_OneLocationPerSymbol ==
  DefinitionAnswered =>
    /\ last.result.locations =
         {Location(ui[1], ui[2].range) : ui \in MatchingSymbols}
    /\ (last.result.form = "Scalar") <=> (Cardinality(MatchingSymbols) = 1)

\* the comment lines directly above the line of item, up to a line that is
\* not a comment or to the top of the file, as 1-based line numbers of doc
CommentRun(doc, item) ==
  LET item_line == item.range.start.line
      is_comment(j) == starts_with(doc.lines[j], <<"/", "/">>)
  IN  {j \in 1..item_line : \A k \in j..item_line : is_comment(k)}

\* the documentation made of a set of consecutive comment lines: every line
\* without its marker and followed by a line feed, in file order
RunText(doc, run) ==
  LET first == CHOOSE j \in run : \A k \in run : j <= k
  IN  concat([n \in 1..Cardinality(run) |->
         Slice(doc.lines[first + n - 1], 2, Len(doc.lines[first + n - 1]))
           \o <<"\n">>])

\* a hover request that found a Symbol
HoverHit ==
  /\ last.kind = "hover"
  /\ last.outcome = "ok"
  /\ last.hit # None

HitDoc == docs[last.hit[1][1]]
HitItem == last.hit[1][2]

\* C13: the documentation of a Symbol is the maximal run of comment lines
\* that ends on the line above its declaration, whether a non-comment line
\* or the top of the file ends the run; an empty run gives no documentation.
C13_CommentRunIsDocumentation ==
  HoverHit =>
    LET run == CommentRun(HitDoc, HitItem)
    IN  last.result =
          IF run = {} THEN None
          ELSE Some([contents |-> RunText(HitDoc, run),
                     range |-> HitItem.range])

\* C14: when the line directly above a declaration is not a comment line,
\* the hover for the Symbol carries no documentation, whatever comment
\* lines stand higher up in the file, and the request completes normally.
C14_NoCommentAboveNoDocumentation ==
  (HoverHit /\ CommentRun(HitDoc, HitItem) = {}) =>
    /\ last.result = None
    /\ status = "running"

\* a hover found a Symbol whose file has a comment line higher up and a
\* line that is not a comment directly above the declaration, and answered
\* without documentation
C14_Witness ==
  /\ HoverHit
  /\ HitItem.range.start.line >= 2
  /\ ~starts_with(HitDoc.lines[HitItem.range.start.line], <<"/", "/">>)
  /\ \E j \in 1..(HitItem.range.start.line - 1) :
       starts_with(HitDoc.lines[j], <<"/", "/">>)
  /\ last.result = None

\* C15: the resolved path of a query is the full segment sequence of an
\* import whose last segment is the cursor identifier's first segment,
\* followed by the identifier's segments after the first; with no such
\* import it is the current module name followed by the whole identifier.
\* The target module is the second-to-last segment of the resolved path, or
\* its only segment.
C15_ResolverLaw ==
  Resolved =>
    LET res == last.resolution[1]
        imports == docs[last.uri].imports
        matching == {import \in imports : import[Len(import)] = res.ident[1]}
        n == Len(res.resolved)
    IN  /\ matching # {} =>
             \E import \in matching :
               res.resolved = import \o SubSeq(res.ident, 2, Len(res.ident))
        /\ matching = {} => res.resolved = <<res.doc_module>> \o res.ident
        /\ res.item_module = IF n >= 2 THEN res.resolved[n - 1]
                             ELSE res.resolved[1]

\* queries were resolved through an import, one of them to a path of a
\* single segment, and against the current module
C15_WitnessImport ==
  /\ Resolved
  /\ \E import \in docs[last.uri].imports :
       /\ import[Len(import)] = last.resolution[1].ident[1]
       /\ Len(import) >= 2
       /\ Len(last.resolution[1].ident) >= 2
       /\ last.resolution[1].resolved =
            import \o Tail(last.resolution[1].ident)

C15_WitnessSingle ==
  /\ Resolved
  /\ Len(last.resolution[1].resolved) = 1
  /\ last.resolution[1].item_module = last.resolution[1].resolved[1]

C15_WitnessLocal ==
  /\ Resolved
  /\ \A import \in docs[last.uri].imports :
       import[Len(import)] # last.resolution[1].ident[1]
  /\ docs[last.uri].imports # {}
  /\ last.resolution[1].resolved =
       <<module_from_uri(last.uri)>> \o last.resolution[1].ident

\* the entries of PREFIXES a line begins with
LinePrefixes(line) ==
  {k \in 1..Len(PREFIXES) : starts_with(line, PREFIXES[k].prefix)}

\* C16: every Symbol of a Document of the store stands on a line that begins
\* with a declaration prefix, and its exported flag and kind are those of a
\* prefix the line begins with, also when the line carries an @symbol
\* attribute.
C16_SymbolAgreesWithPrefix ==
  \A u \in DOMAIN docs : \A item \in docs[u].items :
    \E k \in LinePrefixes(docs[u].lines[item.range.start.line + 1]) :
      /\ item.exported = PREFIXES[k].exported
      /\ item.kind = PREFIXES[k].kind

\* the source files the indexing of directory dir may register: those
\* directly in dir and those directly in a build-tag subdirectory of dir
IndexableFrom(dir) ==
  {p \in FilePaths :
     /\ extension(p) = Some(N_ha)
     /\ \/ parent(p) = dir
        \/ /\ parent(parent(p)) = dir
           /\ is_tag(file_name(parent(p)))}

\* C17: the files an open event registers by indexing directories are files
\* directly in an indexed directory or directly in one of its build-tag
\* subdirectories; ordinary subdirectories and build-tag directories nested
\* in build-tag directories are not walked.
C17_IndexingWalksOneLevel ==
  OpenCompleted =>
    \A u \in DOMAIN last.indexed \ DOMAIN last.before :
      \E dir \in last.dirs : uri_path(u) \in IndexableFrom(dir)

\* a change notification for a uri that is not a key of the store
ChangeOfUnknown ==
  /\ last.kind = "change"
  /\ last.uri \notin DOMAIN prev

\* C18: a change notification for a uri that is not a key of the store
\* leaves the store as it was, inserts no entry for the uri, hands no import
\* to the Import Loader, and the server keeps running.
C18_ChangeOfUnknownIsNoOp ==
  ChangeOfUnknown =>
    /\ docs = prev
    /\ last.uri \notin DOMAIN docs
    /\ last.outcome = "ok"
    /\ last.loaded = {}
    /\ last.dirs = {}
    /\ status = "running"

\* a change notification for a uri that is not a key of a store that holds
\* other files was handled; its one full replacement text has an import
\* whose module directory is not in the store
C18_Witness ==
  /\ ChangeOfUnknown
  /\ DOMAIN prev # {}
  /\ Len(last.content_changes) = 1
  /\ last.content_changes[1].range = None
  /\ ~get_imports_panics(lines(last.content_changes[1].text))
  /\ \E import \in get_imports(lines(last.content_changes[1].text)) :
       \E p \in FilePaths \ UnreadableFiles :
         /\ parent(p) = module_path(search_paths[1], import)
         /\ path_to_uri(p) \notin DOMAIN docs
  /\ status = "running"

\* C19: the resolved path and the target module of a query are the only
\* ones the resolver can give for the query's current module, cursor
\* identifier and import set, whatever the order in which the import set is
\* iterated.
C19_ResolutionIsDeterministic ==
  Resolved =>
    LET res == last.resolution[1]
        imports == docs[last.uri].imports
    IN  /\ resolve_ident(res.doc_module, res.ident, imports) = {res.resolved}
        /\ module_of_ident(res.ident, res.doc_module, imports)
             = {res.item_module}

\* a change notification whose one text reached Document::new
ChangeParsed ==
  /\ last.kind = "change"
  /\ last.uri \in DOMAIN prev
  /\ Len(last.content_changes) = 1

\* C20: the Import Extractor completes on every sequence of lines: the
\* offset it passes to the Identifier Scanner is inside the scanned text,
\* also when the terminator directly follows the keyword, so a change whose
\* text the Symbol Extractor accepts is handled and the server keeps running.
C20_ImportExtractorNeverFails ==
  ChangeParsed =>
    LET ls == lines(last.content_changes[1].text)
    IN  /\ ~get_imports_panics(ls)
        /\ ~parse_items_panics(ls) =>
             last.outcome = "ok" /\ status = "running"

====
